---- MODULE Spec2Model ----
(***************************************************************************)
(* A model of rank-bert's glue code: the GLUE dataset manager              *)
(* (rank_bert/data/load_data.py) and the model adapter                     *)
(* (rank_bert/models/base_models.py).                                      *)
(*                                                                         *)
(* Python values are modelled as follows.                                  *)
(*   - An optional argument or attribute is None (<<>>) or Some(v)         *)
(*     (<<v>>); hasattr(self, 'datasets') is datasets # None.              *)
(*   - A task name is the sequence of its characters, so that str.lower()  *)
(*     is computed character by character.                                 *)
(*   - A dict is a function from its keys; a list is a sequence; list      *)
(*     indices are the 0-based integers Python uses.                       *)
(*   - An extracted text entry carries its Python type: Str(s) for a       *)
(*     single string, Tuple2(a, b) for a 2-tuple.                          *)
(***************************************************************************)
EXTENDS Integers, Sequences, FiniteSets, TLC

VARIABLES
    mgr,        \* "absent" until GLUEDataManager.__init__ returns, then "ready"
    task_name,  \* self.task_name (lower-cased), <<>> while no manager exists
    datasets,   \* self.datasets: None while the attribute is not set
    dls,        \* self.dls: None while the attribute is not set
    last,       \* the last call on the manager: operation, arguments, outcome
                \* (err) and, for create_test_dataloader, what it returned (ret)
    dls_built,  \* history: some create_dataloaders call has completed successfully
    model,      \* what the last get_pretrained_model returned
    fwd         \* the last BertWrapper.forward call: batch, kwargs passed, result

vars == <<mgr, task_name, datasets, dls, last, dls_built, model, fwd>>
mgrVars == <<mgr, task_name, datasets, dls, last, dls_built>>
adapterVars == <<model, fwd>>

(***************************************************************************)
(* Bounds of the model.                                                    *)
(***************************************************************************)
MaxLen == 3        \* the longest split of any dataset the model draws
MaxSamples == 3    \* max_samples ranges over None and 0..MaxSamples
MaxLabels == 3     \* num_labels ranges over None and 0..MaxLabels

(***************************************************************************)
(* Python basics.                                                          *)
(***************************************************************************)
None == <<>>
Some(v) == <<v>>

Min(a, b) == IF a <= b THEN a ELSE b

\* range(n): the indices 0, 1, ..., n-1 (empty when n <= 0).
range(n) == [i \in 1..n |-> i - 1]

\* A slip: the range starts at 0 instead of a.
range2_from_zero(a, b) == [i \in 1..(b - a) |-> i - 1]

\* range(a, b): the indices a, a+1, ..., b-1.
range2(a, b) == [i \in 1..(b - a) |-> a + i - 1]

\* Dataset.select(indices): the rows at the given 0-based indices, in order.
select(rows, indices) == [k \in 1..Len(indices) |-> rows[indices[k] + 1]]

\* dict.get(key): None when the key is absent.
DictGet(d, key) == IF key \in DOMAIN d THEN Some(d[key]) ELSE None

\* str.lower() on the characters task names are drawn from.
LowerChar(c) ==
    CASE c = "S" -> "s" [] c = "T" -> "t" [] c = "M" -> "m" [] c = "R" -> "r"
      [] c = "P" -> "p" [] c = "C" -> "c" [] c = "E" -> "e" [] OTHER -> c

lower(s) == [i \in 1..Len(s) |-> LowerChar(s[i])]

sst2 == <<"s", "s", "t", "2">>
mrpc == <<"m", "r", "p", "c">>
rte == <<"r", "t", "e">>

\* The task names callers pass: the supported ones in several casings, and
\* unsupported ones.
TaskNames ==
    { sst2, <<"S", "S", "T", "2">>, mrpc, <<"M", "r", "p", "c">>, rte,
      <<"R", "T", "E">>, <<"c", "o", "l", "a">>, <<"s", "s", "t">>, <<>> }

(***************************************************************************)
(* The data the model draws from: GLUE-shaped examples.  One-field tasks   *)
(* carry 'sentence'; two-field tasks carry 'sentence1' and 'sentence2'.    *)
(* Every example carries an integer 'label' and its 'idx'.                 *)
(***************************************************************************)
Words == <<"a", "bb", "ccc", "dd d">>
Marks == <<"", " t", " v", " w", " x", " y", " z">>

\* The k-th sentence: its words vary within a split, its mark names the split
\* (splits start at multiples of 10), so no two rows drawn share a text.
Word(k) == Words[(k % Len(Words)) + 1] \o Marks[(k \div 10) + 1]

Example(task, k) ==
    IF task = sst2
    THEN [sentence |-> Word(k), label |-> k % 2, idx |-> k]
    ELSE [sentence1 |-> Word(k), sentence2 |-> Word(k + 1), label |-> k % 2, idx |-> k]

Rows(task, first, n) == [i \in 1..n |-> Example(task, first + i - 1)]

\* What load_dataset('glue', task) returns: the three named splits.
GlueDataset(task) ==
    [train |-> Rows(task, 0, MaxLen),
     validation |-> Rows(task, 10, MaxLen - 1),
     test |-> Rows(task, 20, 2)]

\* The custom_datasets callers pass: with and without a test split, with an
\* empty train or validation split, and without a validation split.
CustomDatasets(task) ==
    { [train |-> Rows(task, 30, MaxLen), validation |-> Rows(task, 40, 1),
       test |-> Rows(task, 50, 1)],
      [train |-> <<>>, validation |-> Rows(task, 40, 2)],
      [train |-> Rows(task, 30, 2), validation |-> <<>>, test |-> <<>>],
      [train |-> Rows(task, 30, 1)] }

CustomArgs(task) == {None} \cup {Some(d) : d \in CustomDatasets(task)}

MaxSamplesArgs == {None} \cup {Some(n) : n \in 0..MaxSamples}

\* The test_data callers pass: nothing, an empty collection, one or two rows.
TestDataArgs(task) ==
    {None, Some(<<>>), Some(Rows(task, 60, 1)), Some(Rows(task, 60, 2))}

(***************************************************************************)
(* GLUEDataManager                                                         *)
(***************************************************************************)
SupportedTasks == {sst2, mrpc, rte}

\* self.text_fields: [field1, field2], field2 None for a one-field task.
text_fields ==
    (sst2 :> <<Some("sentence"), None>>)
        @@ (mrpc :> <<Some("sentence1"), Some("sentence2")>>)
        @@ (rte :> <<Some("sentence1"), Some("sentence2")>>)

DefaultBs == 32

\* val_bs or 2*bs
val_bs_of(val_bs, bs) == IF val_bs # None /\ val_bs[1] # 0 THEN val_bs[1] ELSE 2 * bs

NoCall == [op |-> "none", err |-> "none", task |-> <<>>, custom |-> None,
           max_samples |-> None, test_data |-> None, loaded |-> FALSE,
           ret |-> None]

Call(op, err, task, custom, max_samples, test_data, loaded, ret) ==
    [op |-> op, err |-> err, task |-> task, custom |-> custom,
     max_samples |-> max_samples, test_data |-> test_data, loaded |-> loaded,
     ret |-> ret]

\* A slip: the task check on the name as given, not lower-cased.
init_error_case_sensitive(task, tokenizer_ok) ==
    IF task \notin SupportedTasks THEN "UnsupportedTask"
    ELSE IF ~tokenizer_ok THEN "ModelResolution"
    ELSE "none"

\* __init__'s outcome: the task check comes first, then the tokenizer is
\* resolved (which fails for a model name the library cannot resolve).
init_error(task, tokenizer_ok) ==
    IF lower(task) \notin SupportedTasks THEN "UnsupportedTask"
    ELSE IF ~tokenizer_ok THEN "ModelResolution"
    ELSE "none"

Initialize(task, tokenizer_ok) ==
    /\ mgr = "absent"
    /\ LET err == init_error(task, tokenizer_ok) IN
        /\ mgr' = IF err = "none" THEN "ready" ELSE "absent"
        /\ task_name' = IF err = "none" THEN lower(task) ELSE <<>>
        /\ last' = Call("__init__", err, task, None, None, None, FALSE, None)
    /\ UNCHANGED <<datasets, dls, dls_built, model, fwd>>

\* A slip: one row too many is kept.
truncate_off_by_one(rows, max_samples) ==
    select(rows, range(Min(max_samples + 1, Len(rows))))

\* datasets[split].select(range(min(max_samples, len(datasets[split]))))
truncate(rows, max_samples) == select(rows, range(Min(max_samples, Len(rows))))

\* load_datasets: [err, ds].  fetch_ok is whether the provider can deliver.
load_datasets(task, custom, max_samples, fetch_ok) ==
    IF custom = None /\ ~fetch_ok
    THEN [err |-> "DataUnavailable", ds |-> <<>>]
    ELSE LET got == IF custom # None THEN custom[1] ELSE GlueDataset(task)
             cut == IF max_samples # None
                    THEN [split \in DOMAIN got |->
                            IF split # "test"
                            THEN truncate(got[split], max_samples[1])
                            ELSE got[split]]
                    ELSE got
         IN [err |-> "none", ds |-> cut]

\* A slip: reloading drops the built batch streams.
LoadDatasets_drops_dls(custom, max_samples, fetch_ok) ==
    /\ mgr = "ready"
    /\ LET r == load_datasets(task_name, custom, max_samples, fetch_ok) IN
        /\ datasets' = IF r.err = "none" THEN Some(r.ds) ELSE datasets
        /\ last' = Call("load_datasets", r.err, task_name, custom, max_samples, None, TRUE, None)
    /\ dls' = None
    /\ UNCHANGED <<mgr, task_name, dls_built, model, fwd>>

LoadDatasets(custom, max_samples, fetch_ok) ==
    /\ mgr = "ready"
    /\ LET r == load_datasets(task_name, custom, max_samples, fetch_ok) IN
        /\ datasets' = IF r.err = "none" THEN Some(r.ds) ELSE datasets
        /\ last' = Call("load_datasets", r.err, task_name, custom, max_samples, None, TRUE, None)
    /\ UNCHANGED <<mgr, task_name, dls, dls_built, model, fwd>>

\* A text entry with its Python type: a single string, or a 2-tuple.
Str(s) == [type |-> "str", v |-> <<s>>]
Tuple2(a, b) == [type |-> "tuple", v |-> <<a, b>>]

\* A slip: the two fields of a pair in the wrong order.
extract_text_swapped(task, item) ==
    LET text_field1 == text_fields[task][1]
        text_field2 == text_fields[task][2]
    IN IF text_field2 # None
       THEN Tuple2(item[text_field2[1]], item[text_field1[1]])
       ELSE Str(item[text_field1[1]])

\* The per-example extraction shared by the train, validation and test loops:
\* (item[text_field1], item[text_field2]) when text_field2 is not None,
\* item[text_field1] otherwise.
extract_text(task, item) ==
    LET text_field1 == text_fields[task][1]
        text_field2 == text_fields[task][2]
    IN IF text_field2 # None
       THEN Tuple2(item[text_field1[1]], item[text_field2[1]])
       ELSE Str(item[text_field1[1]])

\* _prepare_fastai_data
prepare_fastai_data(task, ds) ==
    [train_texts |-> [i \in 1..Len(ds["train"]) |-> extract_text(task, ds["train"][i])],
     train_labels |-> [i \in 1..Len(ds["train"]) |-> ds["train"][i]["label"]],
     val_texts |-> [i \in 1..Len(ds["validation"]) |-> extract_text(task, ds["validation"][i])],
     val_labels |-> [i \in 1..Len(ds["validation"]) |-> ds["validation"][i]["label"]]]

\* len(str(t)): a string is its own str(); a 2-tuple prints as ('a', 'b').
str_len(t) ==
    IF t.type = "str" THEN Len(t.v[1]) ELSE Len(t.v[1]) + Len(t.v[2]) + 8

InSeq(x, q) == \E k \in 1..Len(q) : q[k] = x

\* IndexSplitter(valid_idx) applied to a frame of n rows: the training indices
\* are the frame's indices not in valid_idx, in increasing order.
IndexSplitter(valid_idx, n) ==
    [train |-> SelectSeq(range(n), LAMBDA i : ~InSeq(i, valid_idx)),
     valid |-> valid_idx]

\* pd.DataFrame({'text': texts, 'label': labels})
DataFrame(texts, labels) ==
    [i \in 1..Len(texts) |-> [text |-> texts[i], label |-> labels[i]]]

\* The body of create_dataloaders after the datasets are in place: the frame,
\* the splitter's index sets, the two streams and their sort keys.
build_dls(task, ds) ==
    LET p == prepare_fastai_data(task, ds)
        all_texts == p.train_texts \o p.val_texts
        all_labels == p.train_labels \o p.val_labels
        df == DataFrame(all_texts, all_labels)
        train_lens == [i \in 1..Len(p.train_texts) |-> str_len(p.train_texts[i])]
        val_lens == [i \in 1..Len(p.val_texts) |-> str_len(p.val_texts[i])]
        splits == IndexSplitter(range2(Len(p.train_texts),
                                       Len(p.train_texts) + Len(p.val_labels)),
                                Len(df))
    IN [df |-> df,
        train_idx |-> splits.train,
        valid_idx |-> splits.valid,
        train |-> select(df, splits.train),
        valid |-> select(df, splits.valid),
        res |-> train_lens,
        val_res |-> val_lens,
        bs |-> DefaultBs,
        val_bs |-> val_bs_of(None, DefaultBs)]

\* A slip: custom_datasets is ignored once datasets are loaded.
needs_load_only_first(cur, custom) == cur = None

\* not hasattr(self, 'datasets') or custom_datasets is not None
needs_load(cur, custom) == cur = None \/ custom # None

CreateDataloaders(custom, max_samples, fetch_ok) ==
    /\ mgr = "ready"
    /\ LET load == needs_load(datasets, custom)
           r == load_datasets(task_name, custom, max_samples, fetch_ok)
           failed_load == load /\ r.err # "none"
           ds == IF load THEN r.ds ELSE datasets[1]
           err == IF failed_load THEN r.err
                  ELSE IF {"train", "validation"} \subseteq DOMAIN ds THEN "none"
                  ELSE "KeyError"
       IN
        /\ datasets' = IF failed_load THEN datasets ELSE Some(ds)
        /\ dls' = IF err = "none" THEN Some(build_dls(task_name, ds)) ELSE dls
        /\ last' = Call("create_dataloaders", err, task_name, custom, max_samples, None, load, None)
        /\ dls_built' = (dls_built \/ err = "none")
    /\ UNCHANGED <<mgr, task_name, model, fwd>>

\* Python truthiness of an optional collection: None and the empty collection
\* are falsy.
truthy(x) == x # None /\ Len(x[1]) > 0

\* a or b
py_or(a, b) == IF truthy(a) THEN a ELSE b

\* A slip: the precedence check looks at the loaded datasets, not at the
\* built batch streams.
create_test_dataloader_checks_datasets(task, cur_dls, cur_datasets, arg) ==
    IF cur_datasets = None THEN [err |-> "Precedence", dl |-> None]
    ELSE LET test_data == py_or(arg, DictGet(cur_datasets[1], "test")) IN
         IF test_data = None THEN [err |-> "NoTestData", dl |-> None]
         ELSE LET test_texts == [i \in 1..Len(test_data[1]) |->
                                    extract_text(task, test_data[1][i])]
                  test_df == DataFrame(test_texts, [i \in 1..Len(test_texts) |-> 0])
              IN [err |-> "none",
                  dl |-> Some([items |-> test_df,
                               bs |-> IF cur_dls = None THEN 2 * DefaultBs
                                      ELSE cur_dls[1].val_bs])]

\* create_test_dataloader: [err, dl].
create_test_dataloader(task, cur_dls, cur_datasets, arg) ==
    IF cur_dls = None THEN [err |-> "Precedence", dl |-> None]
    ELSE LET test_data == py_or(arg, DictGet(cur_datasets[1], "test")) IN
         IF test_data = None THEN [err |-> "NoTestData", dl |-> None]
         ELSE LET test_texts == [i \in 1..Len(test_data[1]) |->
                                    extract_text(task, test_data[1][i])]
                  test_df == DataFrame(test_texts, [i \in 1..Len(test_texts) |-> 0])
              IN [err |-> "none",
                  dl |-> Some([items |-> test_df, bs |-> cur_dls[1].val_bs])]

CreateTestDataloader(arg) ==
    /\ mgr = "ready"
    /\ LET r == create_test_dataloader(task_name, dls, datasets, arg) IN
        /\ last' = Call("create_test_dataloader", r.err, task_name, None, None, arg,
                         FALSE, r.dl)
    /\ UNCHANGED <<mgr, task_name, datasets, dls, dls_built, model, fwd>>

\* The provider is consulted, and may fail, only when no custom_datasets is given.
FetchOutcomes(custom) == IF custom = None THEN BOOLEAN ELSE {TRUE}

(***************************************************************************)
(* Model adapter                                                           *)
(***************************************************************************)
\* GLUE_NUM_LABELS, keyed by the exact task-name string.
GLUE_NUM_LABELS == (sst2 :> 2) @@ (mrpc :> 2) @@ (rte :> 2)

\* GLUE_NUM_LABELS.get(task_name, 2)
glue_num_labels_get(task, default) ==
    IF task \in DOMAIN GLUE_NUM_LABELS THEN GLUE_NUM_LABELS[task] ELSE default

DefaultNumLabels == 2

BERT_CONFIGS ==
    ("prajjwal1/bert-tiny" :>
        [hidden_size |-> 128, num_hidden_layers |-> 2,
         num_attention_heads |-> 2, intermediate_size |-> 512])
    @@ ("prajjwal1/bert-mini" :>
        [hidden_size |-> 256, num_hidden_layers |-> 4,
         num_attention_heads |-> 4, intermediate_size |-> 1024])
    @@ ("prajjwal1/bert-small" :>
        [hidden_size |-> 512, num_hidden_layers |-> 4,
         num_attention_heads |-> 8, intermediate_size |-> 2048])

\* The model names callers pass: the keys of BERT_CONFIGS, and references to
\* the external model repository (one an architecture that takes no
\* token_type_ids, one a name the repository does not hold).
NoTokenTypeModels == {"distilbert-base-uncased"}
UnknownModels == {"no/such-model"}
ModelNames ==
    DOMAIN BERT_CONFIGS
        \cup {"bert-base-uncased"} \cup NoTokenTypeModels \cup UnknownModels

NumLabelsArgs == {None} \cup {Some(n) : n \in 0..MaxLabels}

\* num_labels or default: None and 0 are falsy.
num_labels_or(num_labels, default) ==
    IF num_labels # None /\ num_labels[1] # 0 THEN num_labels[1] ELSE default

NoModel == [kind |-> "none"]

\* get_pretrained_model: [err, m].
get_pretrained_model(model_name, task, num_labels) ==
    LET n == num_labels_or(num_labels, glue_num_labels_get(task, DefaultNumLabels)) IN
    IF model_name \in DOMAIN BERT_CONFIGS
    THEN [err |-> "none",
          m |-> [kind |-> "compact", name |-> model_name,
                 config |-> BERT_CONFIGS[model_name], num_labels |-> n,
                 hidden_dropout_prob |-> "0.1",
                 attention_probs_dropout_prob |-> "0.1",
                 takes_token_type_ids |-> TRUE]]
    ELSE IF model_name \in UnknownModels
    THEN [err |-> "ModelResolution", m |-> NoModel]
    ELSE [err |-> "none",
          m |-> [kind |-> "pretrained", name |-> model_name, num_labels |-> n,
                 takes_token_type_ids |-> model_name \notin NoTokenTypeModels]]

NoResolve == [done |-> FALSE, err |-> "none", m |-> NoModel]

ResolveModel(model_name, task, num_labels) ==
    /\ LET r == get_pretrained_model(model_name, task, num_labels) IN
        model' = [done |-> TRUE, model_name |-> model_name, task_name |-> task,
                  num_labels |-> num_labels, err |-> r.err, m |-> r.m]
    /\ fwd' = [done |-> FALSE]
    /\ UNCHANGED mgrVars

\* The tensors a tokenized batch holds, by name.
Dicts ==
    {[input_ids |-> i, attention_mask |-> "mask"] : i \in {"ids1", "ids2"}}
        \cup {[input_ids |-> i, attention_mask |-> "mask", token_type_ids |-> "segs"] :
                i \in {"ids1", "ids2"}}

PyDict(d) == [type |-> "dict", d |-> d]
PyTuple(t) == [type |-> "tuple", v |-> t]

\* A batch is the dictionary itself, a 1-tuple holding it, or the dictionary
\* followed by the labels.
Batches ==
    {PyDict(d) : d \in Dicts}
        \cup {PyTuple(<<PyDict(d)>>) : d \in Dicts}
        \cup {PyTuple(<<PyDict(d), "labels">>) : d \in Dicts}

\* The underlying model's outputs for the keyword arguments it is called with:
\* the scores are a function of the model and of exactly what it was given.
model_call(m, kwargs) ==
    [logits |-> [last_dim |-> m.num_labels, model |-> m.name, inputs |-> kwargs],
     loss |-> None,
     hidden_states |-> [model |-> m.name, inputs |-> kwargs]]

\* A slip: token_type_ids is never handed on.
forward_drops_token_type_ids(m, x) ==
    LET x0 == IF x.type = "tuple" THEN x.v[1] ELSE x
        kwargs == [input_ids |-> x0.d["input_ids"],
                   attention_mask |-> x0.d["attention_mask"]]
    IN [kwargs |-> kwargs, err |-> "none", ret |-> Some(model_call(m, kwargs).logits)]

\* BertWrapper.forward: [kwargs, err, ret].
forward(m, x) ==
    LET x0 == IF x.type = "tuple" THEN x.v[1] ELSE x
        input_ids == x0.d["input_ids"]
        attention_mask == x0.d["attention_mask"]
        token_type_ids == DictGet(x0.d, "token_type_ids")
        kwargs == IF token_type_ids # None
                  THEN [input_ids |-> input_ids, attention_mask |-> attention_mask,
                        token_type_ids |-> token_type_ids[1]]
                  ELSE [input_ids |-> input_ids, attention_mask |-> attention_mask]
    IN IF "token_type_ids" \in DOMAIN kwargs /\ ~m.takes_token_type_ids
       THEN [kwargs |-> kwargs, err |-> "TypeError", ret |-> None]
       ELSE [kwargs |-> kwargs, err |-> "none",
             ret |-> Some(model_call(m, kwargs).logits)]

Forward(x) ==
    /\ model.done /\ model.err = "none"
    /\ LET r == forward(model.m, x) IN
        fwd' = [done |-> TRUE, batch |-> x, kwargs |-> r.kwargs, err |-> r.err,
                ret |-> r.ret]
    /\ UNCHANGED <<model>>
    /\ UNCHANGED mgrVars

Init ==
    /\ mgr = "absent"
    /\ task_name = <<>>
    /\ datasets = None
    /\ dls = None
    /\ last = NoCall
    /\ dls_built = FALSE
    /\ model = NoResolve
    /\ fwd = [done |-> FALSE]

Next ==
    \/ \E task \in TaskNames, tokenizer_ok \in BOOLEAN : Initialize(task, tokenizer_ok)
    \/ \E custom \in CustomArgs(task_name), max_samples \in MaxSamplesArgs :
          \E fetch_ok \in FetchOutcomes(custom) :
              LoadDatasets(custom, max_samples, fetch_ok)
    \/ \E custom \in CustomArgs(task_name), max_samples \in MaxSamplesArgs :
          \E fetch_ok \in FetchOutcomes(custom) :
              CreateDataloaders(custom, max_samples, fetch_ok)
    \/ \E arg \in TestDataArgs(task_name) : CreateTestDataloader(arg)

Spec == Init /\ [][Next]_vars

\* The model adapter on its own: resolving models and calling the wrapper.
AdapterNext ==
    \/ \E model_name \in ModelNames, task \in TaskNames, num_labels \in NumLabelsArgs :
          ResolveModel(model_name, task, num_labels)
    \/ \E x \in Batches : Forward(x)

AdapterSpec == Init /\ [][AdapterNext]_vars

(***************************************************************************)
(* Properties                                                              *)
(***************************************************************************)
\* The spellings, among the task names drawn, whose lower-cased form is one
\* of sst2, mrpc, rte.
SupportedSpellings ==
    { <<"s", "s", "t", "2">>, <<"S", "S", "T", "2">>, <<"m", "r", "p", "c">>,
      <<"M", "r", "p", "c">>, <<"r", "t", "e">>, <<"R", "T", "E">> }

\* C1: __init__ fails with the unsupported-task error exactly for the task
\* names whose lower-cased form is not sst2, mrpc or rte, whatever their
\* casing; while no __init__ has succeeded there is no manager, and nothing
\* has been loaded, built or called on one.
C1_UnsupportedTaskRejected ==
    /\ last.op = "__init__" =>
        /\ (last.err = "UnsupportedTask") <=> (last.task \notin SupportedSpellings)
        /\ (last.err # "none") => (mgr = "absent")
        /\ (last.err = "none") => (mgr = "ready" /\ task_name \in {sst2, mrpc, rte})
    /\ mgr = "absent" =>
        /\ datasets = None /\ dls = None /\ ~dls_built
        /\ last.op \in {"none", "__init__"}

C1_Witness ==
    /\ last.op = "__init__"
    /\ last.task = <<"c", "o", "l", "a">>
    /\ last.err = "UnsupportedTask"
    /\ mgr = "absent"

\* The mixed-case spelling is accepted.
C1_WitnessCase ==
    /\ last.op = "__init__"
    /\ last.task = <<"M", "r", "p", "c">>
    /\ mgr = "ready"

\* The splits a load_datasets call starts from: the custom datasets when
\* given, the provider's otherwise.
Original(call) ==
    IF call.custom # None THEN call.custom[1] ELSE GlueDataset(call.task)

\* rows is the first Min(n, Len(orig)) rows of orig, in order.
IsPrefixOfLength(rows, orig, n) ==
    /\ Len(rows) = (IF n < Len(orig) THEN n ELSE Len(orig))
    /\ \A i \in 1..Len(rows) : rows[i] = orig[i]

\* got is what loading orig under max_samples must leave.
IsLoadOf(got, orig, max_samples) ==
    /\ DOMAIN got = DOMAIN orig
    /\ \A split \in DOMAIN orig :
        IF max_samples = None \/ split = "test"
        THEN got[split] = orig[split]
        ELSE /\ IsPrefixOfLength(got[split], orig[split], max_samples[1])
             /\ Len(got[split]) <= max_samples[1]
             /\ Len(got[split]) <= Len(orig[split])

\* C2: after a successful load_datasets(max_samples=N) every non-test split
\* is the first min(N, original length) examples of the original split in
\* their order, the test split is untouched, and without max_samples every
\* split is unchanged.
C2_TruncationKeepsPrefix ==
    (last.op = "load_datasets" /\ last.err = "none") =>
        /\ datasets # None
        /\ IsLoadOf(datasets[1], Original(last), last.max_samples)

C2_Witness ==
    /\ last.op = "load_datasets" /\ last.err = "none"
    /\ last.custom = None
    /\ last.max_samples = Some(2)
    /\ Len(datasets[1]["train"]) = 2
    /\ Len(GlueDataset(task_name)["train"]) > 2
    /\ datasets[1]["test"] = GlueDataset(task_name)["test"]

\* C3: create_test_dataloader raises the precedence error exactly when no
\* create_dataloaders call has completed successfully before it.
C3_PrecedenceError ==
    last.op = "create_test_dataloader" =>
        ((last.err = "Precedence") <=> ~dls_built)

\* The test call after load_datasets alone: the precedence error.
C3_Witness ==
    /\ last.op = "create_test_dataloader"
    /\ last.err = "Precedence"
    /\ datasets # None

\* The rows create_test_dataloader builds from a collection of examples.
TestRowsOf(task, examples) ==
    [i \in 1..Len(examples) |-> [text |-> extract_text(task, examples[i]), label |-> 0]]

\* C4: once training batches are built, create_test_dataloader builds from
\* exactly the supplied test_data whenever one is supplied (an empty one
\* included), from the loaded test split otherwise, and fails with the
\* no-test-data error exactly when none is supplied and no test split is
\* loaded.
C4_TestDataSource ==
    (last.op = "create_test_dataloader" /\ last.err # "Precedence") =>
        IF last.test_data # None
        THEN /\ last.err = "none"
             /\ last.ret[1].items = TestRowsOf(task_name, last.test_data[1])
        ELSE IF "test" \in DOMAIN datasets[1]
        THEN /\ last.err = "none"
             /\ last.ret[1].items = TestRowsOf(task_name, datasets[1]["test"])
        ELSE last.err = "NoTestData"

\* The text entry the task's descriptor prescribes for an example: the single
\* string of 'sentence' for sst2, the pair (sentence1, sentence2) for mrpc and
\* rte.
ExpectedText(task, item) ==
    IF task = sst2
    THEN [type |-> "str", v |-> <<item.sentence>>]
    ELSE [type |-> "tuple", v |-> <<item.sentence1, item.sentence2>>]

HasArity(task, text) ==
    IF task = sst2
    THEN text.type = "str" /\ Len(text.v) = 1
    ELSE text.type = "tuple" /\ Len(text.v) = 2

\* The collections a create_test_dataloader call can have read its examples
\* from: the one supplied, the loaded test split.
TestSources ==
    (IF last.test_data # None THEN {last.test_data[1]} ELSE {})
        \cup (IF "test" \in DOMAIN datasets[1] THEN {datasets[1]["test"]} ELSE {})

\* C7: on every extraction path each text entry has the arity of the task's
\* descriptor (a single string for sst2, the pair (sentence1, sentence2) in
\* that order for mrpc and rte), the entries are as many as the examples and
\* in their order, and each train and validation label stays with its text.
C7_ArityFollowsTask ==
    /\ (last.op = "create_dataloaders" /\ last.err = "none") =>
        LET ds == datasets[1]
            T == Len(ds["train"])
            V == Len(ds["validation"])
            df == dls[1].df
        IN /\ Len(df) = T + V
           /\ \A i \in 1..T :
                /\ df[i].text = ExpectedText(task_name, ds["train"][i])
                /\ HasArity(task_name, df[i].text)
                /\ df[i].label = ds["train"][i].label
           /\ \A j \in 1..V :
                /\ df[T + j].text = ExpectedText(task_name, ds["validation"][j])
                /\ HasArity(task_name, df[T + j].text)
                /\ df[T + j].label = ds["validation"][j].label
    /\ (last.op = "create_test_dataloader" /\ last.err = "none") =>
        \E src \in TestSources :
            /\ Len(last.ret[1].items) = Len(src)
            /\ \A i \in 1..Len(src) :
                /\ last.ret[1].items[i].text = ExpectedText(task_name, src[i])
                /\ HasArity(task_name, last.ret[1].items[i].text)

\* The two-field task on the test path: two rows, each a pair.
C7_Witness ==
    /\ task_name = mrpc
    /\ last.op = "create_test_dataloader" /\ last.err = "none"
    /\ Len(last.ret[1].items) = 2
    /\ last.ret[1].items[1].text.type = "tuple"
    /\ dls # None /\ Len(dls[1].train) > 0

\* C8: a load_datasets call replaces the stored datasets by the newly loaded
\* splits and leaves the built batch streams as they are; create_test_dataloader
\* changes neither; loaded datasets stay loaded and built streams stay built.
C8_NoBackwardTransition ==
    [][ /\ (last'.op = "load_datasets") => (dls' = dls)
        /\ (last'.op = "load_datasets" /\ last'.err = "none") =>
              /\ datasets' # None
              /\ IsLoadOf(datasets'[1], Original(last'), last'.max_samples)
        /\ (last'.op = "create_test_dataloader") =>
              (datasets' = datasets /\ dls' = dls)
        /\ (datasets # None) => (datasets' # None)
        /\ (dls # None) => (dls' # None)
      ]_vars

\* Streams built from earlier datasets, kept across a reload of other data.
C8_Witness ==
    /\ last.op = "load_datasets" /\ last.err = "none"
    /\ dls # None
    /\ Len(dls[1].train) # Len(datasets[1]["train"])

\* C9: create_dataloaders invokes load_datasets, with both arguments, exactly
\* when no datasets are loaded yet or custom_datasets is supplied; otherwise
\* it builds from the loaded splits and leaves them as they are, max_samples
\* truncating nothing.
C9_LoadOnlyWhenNeeded ==
    [][ (last'.op = "create_dataloaders" /\ last' # last) =>
          LET must == (datasets = None \/ last'.custom # None) IN
          /\ last'.loaded <=> must
          /\ (must /\ last'.err # "DataUnavailable") =>
                /\ datasets' # None
                /\ IsLoadOf(datasets'[1], Original(last'), last'.max_samples)
          /\ (~must) =>
                /\ datasets' = datasets
                /\ last'.err = "none" =>
                     (dls' # None /\ dls'[1].train =
                        [i \in 1..Len(datasets[1]["train"]) |->
                            [text |-> ExpectedText(task_name, datasets[1]["train"][i]),
                             label |-> datasets[1]["train"][i].label]])
      ]_vars

\* A max_samples given with datasets already loaded: nothing is truncated.
C9_Witness ==
    /\ last.op = "create_dataloaders" /\ last.err = "none"
    /\ ~last.loaded
    /\ last.max_samples = Some(1)
    /\ Len(datasets[1]["train"]) > 1
    /\ Len(dls[1].train) > 1

\* The frame row of an example.
RowOf(task, item) == [text |-> ExpectedText(task, item), label |-> item.label]

\* C10: the combined frame has the T train rows at indices 0..T-1 followed
\* by the V validation rows at indices T..T+V-1; the splitter assigns exactly
\* T..T+V-1 to validation and the rest to training, so the two streams hold
\* exactly the train rows and exactly the validation rows, no row in both or
\* in neither; the sort-key lists have lengths T and V.
C10_SplitterSeparates ==
    (last.op = "create_dataloaders" /\ last.err = "none") =>
        LET ds == datasets[1]
            T == Len(ds["train"])
            V == Len(ds["validation"])
            d == dls[1]
        IN /\ Len(d.df) = T + V
           /\ \A i \in 1..T : d.df[i] = RowOf(task_name, ds["train"][i])
           /\ \A j \in 1..V : d.df[T + j] = RowOf(task_name, ds["validation"][j])
           /\ d.valid_idx = [j \in 1..V |-> T + j - 1]
           /\ d.train_idx = [i \in 1..T |-> i - 1]
           /\ \A k \in 0..(T + V - 1) : InSeq(k, d.train_idx) # InSeq(k, d.valid_idx)
           /\ d.train = [i \in 1..T |-> RowOf(task_name, ds["train"][i])]
           /\ d.valid = [j \in 1..V |-> RowOf(task_name, ds["validation"][j])]
           /\ Len(d.res) = T
           /\ Len(d.val_res) = V

\* An empty train split: every row goes to validation.
C10_Witness ==
    /\ last.op = "create_dataloaders" /\ last.err = "none"
    /\ Len(datasets[1]["train"]) = 0
    /\ Len(dls[1].train) = 0
    /\ Len(dls[1].valid) = 2
    /\ dls[1].valid_idx = <<0, 1>>

\* The dictionary a batch carries: the batch itself, or the first element of
\* the sequence.
DictOf(batch) == IF batch.type = "dict" THEN batch.d ELSE batch.v[1].d

\* What the wrapper must hand the underlying model: input_ids and
\* attention_mask always, token_type_ids when the batch has it.
KeysToPass(d) == {"input_ids", "attention_mask"} \cup (DOMAIN d \cap {"token_type_ids"})

TableLabels(task) ==
    CASE task \in {<<"s", "s", "t", "2">>, <<"S", "S", "T", "2">>} -> 2
      [] task \in {<<"m", "r", "p", "c">>, <<"M", "r", "p", "c">>} -> 2
      [] task \in {<<"r", "t", "e">>, <<"R", "T", "E">>} -> 2

\* C6: get_pretrained_model sizes the head to num_labels for every supplied
\* num_labels; without one it uses the table's count for sst2, mrpc and rte in
\* any casing and 2 for an unknown task, never failing on the task name, on
\* the compact branch and on the pretrained branch alike.
C6_HeadSizedToNumLabels ==
    model.done =>
        /\ (model.err # "none") => (model.model_name \in UnknownModels)
        /\ (model.err = "none") =>
            /\ model.m.kind =
                 (IF model.model_name \in DOMAIN BERT_CONFIGS
                  THEN "compact" ELSE "pretrained")
            /\ model.m.num_labels =
                 (IF model.num_labels # None THEN model.num_labels[1]
                  ELSE IF model.task_name \in SupportedSpellings
                       THEN TableLabels(model.task_name)
                  ELSE 2)

\* What the code does hold to: a supplied num_labels other than 0 sizes the
\* head; None and 0 both fall back to the task's count.
C6_NonZeroNumLabels ==
    (model.done /\ model.err = "none") =>
        model.m.num_labels =
            (IF model.num_labels # None /\ model.num_labels[1] # 0
             THEN model.num_labels[1]
             ELSE IF model.task_name \in SupportedSpellings
                  THEN TableLabels(model.task_name)
             ELSE 2)

\* What the code does hold to in create_test_dataloader: a supplied test_data
\* that is not empty is the source; None and an empty one both fall back to
\* the loaded test split.
C4_NonEmptyTestData ==
    (last.op = "create_test_dataloader" /\ last.err # "Precedence") =>
        IF last.test_data # None /\ last.test_data[1] # <<>>
        THEN /\ last.err = "none"
             /\ last.ret[1].items = TestRowsOf(task_name, last.test_data[1])
        ELSE IF "test" \in DOMAIN datasets[1]
        THEN /\ last.err = "none"
             /\ last.ret[1].items = TestRowsOf(task_name, datasets[1]["test"])
        ELSE last.err = "NoTestData"

====
